---- MODULE Spec2Model ----
(***************************************************************************)
(* Model of Acore::Containers (src/common/Utilities/Containers.h): the     *)
(* randomized resize, the predicate selector, the stable erasers, the      *)
(* multimap pair eraser and the bounds-checked output iterator.            *)
(*                                                                         *)
(* One call of one operation is modelled per behaviour: Init draws the     *)
(* operation and its arguments, the actions are the statements of the      *)
(* called function.  Container elements are records [v, i]: v is the value *)
(* the program sees (predicates and operator== read only v), i is the      *)
(* position the element had in the argument, carried along by moves and    *)
(* swaps so that properties about "which element survived" are statable.   *)
(***************************************************************************)
EXTENDS Integers, Sequences, FiniteSets, TLC

\* ---------------------------------------------------------------- bounds
\* Longest container / multimap passed to an operation.
MaxLen == 4
\* Capacity of the largest buffer wrapped by a CheckedBufferOutputIterator.
MaxCap == 3
\* Number of iterator operations applied to one CheckedBufferOutputIterator.
MaxOps == 5

\* Element values: two values are enough to have elements that satisfy a
\* predicate and elements that do not; identity is carried by the i field.
Vals == {1, 2}
Keys == {1, 2, 3}

Elem(v, i) == [v |-> v, i |-> i]
\* The state of an object after std::move took its value, for a type whose
\* move assignment does not leave the source intact.
MovedFromElem == [v |-> 0, i |-> 0]

\* All containers of length n whose i-th element sits at position i.
ContainersOfLen(n) == { [j \in 1..n |-> Elem(f[j], j)] : f \in [1..n -> Vals] }
Containers == UNION { ContainersOfLen(n) : n \in 0..MaxLen }
\* A predicate is the set of values it accepts.
Predicates == SUBSET Vals

VARIABLES
    \* every operation
    op,                 \* the operation this behaviour calls
    pc,                 \* the statement the call is at
    input,              \* the container argument as passed (never written)
    container,          \* the caller's container
    pred,               \* the predicate argument
    draws,              \* the urand calls made so far: <<[max, val], ...>>
    \* RandomResize
    requestedSize,
    containerCopy,      \* predicate overload: containerCopy
    keepIt, curIt,      \* the two iterators (1-based positions, end = Len + 1)
    elementsToKeep, elementsToProcess,
    \* EraseIf, move-assignable overload (on container)
    wpos, rpos, endIt,
    \* EraseIf, non-move-assignable overload, called with the same arguments
    containerNM, itNM, pcNM,
    \* MultimapErasePair
    multimap, key, value,
    itr, rangeSecond,   \* node iterators: the i field of the node, End for end()
    \* SelectRandomContainerElementIf
    matchingElements, scanIt, randomIt,
    \* SelectRandomWeightedContainerElement (weight extractor overload)
    weightExtractor,    \* the extractor argument: value -> weight
    weights, weightSum,
    swIt,               \* the position the range-for is at
    weightedIt,         \* the iterator returned
    \* CheckedBufferOutputIterator
    buf, bufEnd,        \* _buf and _end as offsets into the wrapped buffer
    buffer,             \* the wrapped buffer, 0 = never written
    threw,              \* the last operation ended in std::out_of_range
    lastOp,             \* the last operation applied
    handed,             \* offsets operator* has returned a reference to
    nOps,               \* operations applied
    attempts, writes,   \* single-element writes attempted / completed
    advances,           \* operator++ calls that returned
    lastRemaining       \* value of the last remaining() call

comVars == <<op, input, pred>>
rrVars == <<requestedSize, containerCopy, keepIt, curIt, elementsToKeep,
            elementsToProcess>>
eiVars == <<wpos, rpos, endIt>>
nmVars == <<containerNM, itNM, pcNM>>
mmVars == <<multimap, key, value, itr, rangeSecond>>
siVars == <<matchingElements, scanIt, randomIt>>
swVars == <<weightExtractor, weights, weightSum, swIt, weightedIt>>
curVars == <<buf, bufEnd, buffer, threw, lastOp, handed, nOps, attempts, writes,
             advances, lastRemaining>>
vars == <<comVars, pc, container, draws, rrVars, eiVars, nmVars, mmVars, siVars,
          swVars, curVars>>

\* ------------------------------------------------------- Random source
\* urand(min, max): any value of the inclusive range.
urand(min, max) == min..max

\* ------------------------------------------------------- sequence helpers
\* container.erase(first, last) on positions [first, last).
EraseRange(c, first, last) ==
    SubSeq(c, 1, first - 1) \o SubSeq(c, last, Len(c))

\* predicate(*it): predicates read the value only.
Holds(p, e) == e.v \in p

RECURSIVE CopyIf(_, _)
\* std::copy_if(begin, end, inserter(out, out.end()), predicate)
CopyIf(c, p) ==
    IF c = <<>> THEN <<>>
    ELSE (IF Holds(p, Head(c)) THEN <<Head(c)>> ELSE <<>>) \o CopyIf(Tail(c), p)

\* Each operation leaves the variables of the other operations alone.
OthersRR == <<eiVars, nmVars, mmVars, siVars, swVars, curVars>>
OthersEI == <<rrVars, mmVars, siVars, swVars, curVars, draws>>
OthersMM == <<rrVars, eiVars, nmVars, siVars, swVars, curVars, container, draws>>
OthersSI == <<rrVars, eiVars, nmVars, mmVars, swVars, curVars, container>>
OthersSW == <<rrVars, eiVars, nmVars, mmVars, siVars, curVars, container>>
OthersCur == <<rrVars, eiVars, nmVars, mmVars, siVars, swVars, container, draws, pc>>

RRIdle ==
    /\ requestedSize = 0 /\ containerCopy = <<>>
    /\ keepIt = 0 /\ curIt = 0
    /\ elementsToKeep = 0 /\ elementsToProcess = 0
EIIdle == wpos = 0 /\ rpos = 0 /\ endIt = 0
NMIdle == containerNM = <<>> /\ itNM = 0 /\ pcNM = "none"
MMIdle == multimap = <<>> /\ key = 0 /\ value = 0 /\ itr = 0 /\ rangeSecond = 0
SIIdle == matchingElements = <<>> /\ scanIt = 0 /\ randomIt = 0
SWIdle ==
    /\ weightExtractor = <<>> /\ weights = <<>> /\ weightSum = 0
    /\ swIt = 0 /\ weightedIt = 0
CurIdle ==
    /\ buf = 0 /\ bufEnd = 0 /\ buffer = <<>> /\ threw = FALSE /\ lastOp = "none"
    /\ handed = {} /\ nOps = 0 /\ attempts = 0 /\ writes = 0 /\ advances = 0
    /\ lastRemaining = 0

\* ---------------------------------------------------------- RandomResize
\* The container RandomResize(C&, size_t) works on: the caller's container,
\* or containerCopy when called from the predicate overload.
RRContainer == IF op = "RandomResizeIf" THEN containerCopy ELSE container
RRSetContainer(c) ==
    IF op = "RandomResizeIf"
    THEN containerCopy' = c /\ UNCHANGED container
    ELSE container' = c /\ UNCHANGED containerCopy
RRReturn == IF op = "RandomResizeIf" THEN "rrp_assign" ELSE "done"

\* Variants with a defect, used to test that the properties below detect it.
NothingToResize_Strict(size, requested) == size < requested
KeepElement_Strict(draw, toKeep) == draw < toKeep
DrawRange_OneMore(toProcess) == urand(1, toProcess + 1)
MoveAssign_Reversed(c, to, from, left) == [c EXCEPT ![from] = c[to]]
CapRequested_Always(requested) == TRUE

LoopContinues_StopsEarly(toProcess) == toProcess > 1

\* line 83: the early return
NothingToResize(size, requested) == size <= requested
\* line 91: while (elementsToProcess)
LoopContinues(toProcess) == toProcess # 0
\* line 94: the element is kept iff the draw is <= elementsToKeep
KeepElement(draw, toKeep) == draw <= toKeep
\* line 94: the range of the draw
DrawRange(toProcess) == urand(1, toProcess)
\* line 98: *keepIt = std::move(*curIt); the source is left either intact
\* (trivially movable element) or in its moved-from state.
MoveAssign(c, to, from, left) == [c EXCEPT ![to] = c[from], ![from] = left]
MovedFromStates(e) == {e, MovedFromElem}

\* lines 83-89.  requestedSize and the size are below 2^32 here, so the
\* conversions to uint32 on line 89 keep their values.
RR_Entry ==
    /\ pc = "rr_entry"
    /\ IF NothingToResize(Len(RRContainer), requestedSize)
       THEN /\ pc' = RRReturn
            /\ UNCHANGED <<keepIt, curIt, elementsToKeep, elementsToProcess>>
       ELSE /\ pc' = "rr_loop"
            /\ keepIt' = 1 /\ curIt' = 1
            /\ elementsToKeep' = requestedSize
            /\ elementsToProcess' = Len(RRContainer)
    /\ UNCHANGED <<comVars, container, draws, requestedSize, containerCopy, OthersRR>>

\* lines 91-107, one iteration
RR_LoopBody ==
    /\ pc = "rr_loop"
    /\ LoopContinues(elementsToProcess)
    /\ \E draw \in DrawRange(elementsToProcess) :
        /\ draws' = Append(draws, [max |-> elementsToProcess, val |-> draw])
        /\ IF KeepElement(draw, elementsToKeep)
           THEN /\ IF keepIt # curIt
                   THEN \E left \in MovedFromStates(RRContainer[curIt]) :
                            RRSetContainer(MoveAssign(RRContainer, keepIt, curIt, left))
                   ELSE UNCHANGED <<container, containerCopy>>
                /\ keepIt' = keepIt + 1
                /\ elementsToKeep' = elementsToKeep - 1
           ELSE UNCHANGED <<container, containerCopy, keepIt, elementsToKeep>>
    /\ curIt' = curIt + 1
    /\ elementsToProcess' = elementsToProcess - 1
    /\ UNCHANGED <<comVars, pc, requestedSize, OthersRR>>

\* line 109, after the loop
RR_Erase ==
    /\ pc = "rr_loop"
    /\ ~LoopContinues(elementsToProcess)
    /\ RRSetContainer(EraseRange(RRContainer, keepIt, Len(RRContainer) + 1))
    /\ pc' = RRReturn
    /\ UNCHANGED <<comVars, draws, requestedSize, keepIt, curIt, elementsToKeep,
                   elementsToProcess, OthersRR>>

RECURSIVE KeptPositions(_, _, _, _)
\* The positions the loop of lines 91-107 keeps when its draws are d[j],
\* d[j+1], ...: the loop as a function of its draws.
KeptPositions(j, toKeep, toProcess, d) ==
    IF toProcess = 0 THEN {}
    ELSE IF KeepElement(d[j], toKeep)
         THEN {j} \cup KeptPositions(j + 1, toKeep - 1, toProcess - 1, d)
         ELSE KeptPositions(j + 1, toKeep, toProcess - 1, d)

RECURSIVE DrawSeqs(_)
\* The sequences of draws the loop can make with toProcess elements left:
\* one draw per element, each from the range of line 94.
DrawSeqs(toProcess) ==
    IF toProcess = 0 THEN { <<>> }
    ELSE { <<x>> \o d : x \in DrawRange(toProcess), d \in DrawSeqs(toProcess - 1) }

\* ------------------------------------------- RandomResize with predicate
\* line 119: if (requestedSize)
CapRequested(requested) == requested # 0

\* lines 116-119
RRP_Filter ==
    /\ pc = "rrp_filter"
    /\ containerCopy' = CopyIf(container, pred)
    /\ pc' = IF CapRequested(requestedSize) THEN "rr_entry" ELSE "rrp_assign"
    /\ UNCHANGED <<comVars, container, draws, requestedSize, keepIt, curIt,
                   elementsToKeep, elementsToProcess, OthersRR>>

\* line 124
RRP_Assign ==
    /\ pc = "rrp_assign"
    /\ container' = containerCopy
    /\ pc' = "done"
    /\ UNCHANGED <<comVars, draws, rrVars, OthersRR>>

\* -------------------------------------------- EraseIf, move-assignable
Survives_Inverted(p, e) == Holds(p, e)

\* line 262: std::swap(*rpos, *wpos)
SwapElems(c, a, b) == [c EXCEPT ![a] = c[b], ![b] = c[a]]
\* line 258: the element stays iff the predicate rejects it
Survives(p, e) == ~Holds(p, e)
\* line 267: c.erase(wpos, c.end())
EraseTail(c, w) == EraseRange(c, w, Len(c) + 1)

\* lines 255-256, loop initialisation
EI_Entry ==
    /\ pc = "ei_entry"
    /\ wpos' = 1 /\ rpos' = 1 /\ endIt' = Len(container) + 1
    /\ pc' = "ei_loop"
    /\ UNCHANGED <<comVars, container, nmVars, OthersEI>>

\* lines 256-266, one iteration
EI_LoopBody ==
    /\ pc = "ei_loop"
    /\ rpos # endIt
    /\ IF Survives(pred, container[rpos])
       THEN /\ container' = IF rpos # wpos THEN SwapElems(container, rpos, wpos)
                            ELSE container
            /\ wpos' = wpos + 1
       ELSE UNCHANGED <<container, wpos>>
    /\ rpos' = rpos + 1
    /\ UNCHANGED <<comVars, pc, endIt, nmVars, OthersEI>>

\* line 267, after the loop
EI_Erase ==
    /\ pc = "ei_loop"
    /\ rpos = endIt
    /\ container' = EraseTail(container, wpos)
    /\ pc' = "done"
    /\ UNCHANGED <<comVars, eiVars, nmVars, OthersEI>>

\* ---------------------------------------- EraseIf, non-move-assignable
EraseAt_ToEnd(c, at) == EraseRange(c, at, Len(c) + 1)

\* line 277: c.erase(it) removes one element ...
EraseAt(c, at) == EraseRange(c, at, at + 1)
\* ... and returns the iterator to the element that followed it, which is at
\* the erased element's position.
AfterErase(at) == at

\* line 273, loop initialisation
NM_Entry ==
    /\ pcNM = "nm_entry"
    /\ itNM' = 1
    /\ pcNM' = "nm_loop"
    /\ UNCHANGED <<comVars, pc, container, containerNM, eiVars, OthersEI>>

\* lines 273-283, one iteration; c.end() is read anew each time
NM_LoopBody ==
    /\ pcNM = "nm_loop"
    /\ itNM # Len(containerNM) + 1
    /\ IF Holds(pred, containerNM[itNM])
       THEN /\ containerNM' = EraseAt(containerNM, itNM)
            /\ itNM' = AfterErase(itNM)
       ELSE /\ itNM' = itNM + 1
            /\ UNCHANGED containerNM
    /\ UNCHANGED <<comVars, pc, container, pcNM, eiVars, OthersEI>>

NM_Exit ==
    /\ pcNM = "nm_loop"
    /\ itNM = Len(containerNM) + 1
    /\ pcNM' = "done"
    /\ UNCHANGED <<comVars, pc, container, containerNM, itNM, eiVars, OthersEI>>

\* ---------------------------------------------------- MultimapErasePair
\* The multimap is the sequence of its nodes in iteration order (ascending
\* keys); a node iterator is the node's i field, which erasing other nodes
\* does not change, and End is end().
End == 0
Entry(k, v, i) == [k |-> k, v |-> v, i |-> i]
NodePos(m, it) == CHOOSE j \in 1..Len(m) : m[j].i = it
NodeAt(m, it) == m[NodePos(m, it)]
\* ++itr
NodeNext(m, it) ==
    IF NodePos(m, it) = Len(m) THEN End ELSE m[NodePos(m, it) + 1].i
\* The first node among the positions hits, end() when there is none.
FirstNode(m, hits) ==
    IF hits = {} THEN End
    ELSE m[CHOOSE j \in hits : \A l \in hits : j <= l].i
\* line 238: multimap.equal_range(key) = (lower_bound, upper_bound)
LowerBound(m, k) == FirstNode(m, { j \in 1..Len(m) : ~(m[j].k < k) })
UpperBound(m, k) == FirstNode(m, { j \in 1..Len(m) : k < m[j].k })
ValueMatches_Any(e, v) == TRUE

\* line 241: itr->second == value
ValueMatches(e, v) == e.v = v
\* line 243: multimap.erase(itr)
EraseNode(m, it) == EraseRange(m, NodePos(m, it), NodePos(m, it) + 1)

\* lines 238-239
MM_Entry ==
    /\ pc = "mm_entry"
    /\ itr' = LowerBound(multimap, key)
    /\ rangeSecond' = UpperBound(multimap, key)
    /\ pc' = "mm_loop"
    /\ UNCHANGED <<comVars, multimap, key, value, OthersMM>>

\* lines 239-249, one iteration
MM_LoopBody ==
    /\ pc = "mm_loop"
    /\ itr # rangeSecond
    /\ IF ValueMatches(NodeAt(multimap, itr), value)
       THEN multimap' = EraseNode(multimap, itr)
       ELSE UNCHANGED multimap
    /\ itr' = NodeNext(multimap, itr)
    /\ UNCHANGED <<comVars, pc, key, value, rangeSecond, OthersMM>>

MM_Exit ==
    /\ pc = "mm_loop"
    /\ itr = rangeSecond
    /\ pc' = "done"
    /\ UNCHANGED <<comVars, mmVars, OthersMM>>

\* --------------------------------------- SelectRandomContainerElementIf
\* Iterators are positions; std::end(container) is Len(container) + 1.
EndOf(c) == Len(c) + 1
PickRange_SkipFirst(size) == urand(1, size - 1)

\* line 161: the index drawn into matchingElements
PickRange(size) == urand(0, size - 1)
\* line 161: matchingElements[index], a 0-based subscript
PickAt(m, index) == m[index + 1]

\* line 154, loop initialisation
SI_Entry ==
    /\ pc = "si_entry"
    /\ scanIt' = 1
    /\ pc' = "si_scan"
    /\ UNCHANGED <<comVars, draws, matchingElements, randomIt, OthersSI>>

\* lines 154-156, one iteration
SI_ScanBody ==
    /\ pc = "si_scan"
    /\ scanIt # EndOf(input)
    /\ matchingElements' = IF Holds(pred, input[scanIt])
                           THEN Append(matchingElements, scanIt)
                           ELSE matchingElements
    /\ scanIt' = scanIt + 1
    /\ UNCHANGED <<comVars, pc, draws, randomIt, OthersSI>>

SI_ScanExit ==
    /\ pc = "si_scan"
    /\ scanIt = EndOf(input)
    /\ pc' = "si_pick"
    /\ UNCHANGED <<comVars, draws, siVars, OthersSI>>

\* lines 158-159
SI_ReturnEnd ==
    /\ pc = "si_pick"
    /\ matchingElements = <<>>
    /\ randomIt' = EndOf(input)
    /\ pc' = "done"
    /\ UNCHANGED <<comVars, draws, matchingElements, scanIt, OthersSI>>

\* lines 161-162
SI_ReturnPick ==
    /\ pc = "si_pick"
    /\ matchingElements # <<>>
    /\ \E index \in PickRange(Len(matchingElements)) :
        /\ draws' = Append(draws, [max |-> Len(matchingElements) - 1, val |-> index])
        /\ randomIt' = PickAt(matchingElements, index)
    /\ pc' = "done"
    /\ UNCHANGED <<comVars, matchingElements, scanIt, OthersSI>>

\* ------------------ SelectRandomWeightedContainerElement (extractor)
\* Weights are doubles; the values used here are small integers, which
\* doubles represent and add exactly.
WeightVals == {-1, 0, 1, 2}
\* urandweighted(count, chances): an index drawn with probability
\* proportional to its weight, so one whose weight is positive.  Weights
\* that are not a distribution (a negative one, or none positive) break its
\* contract: any index may come back.
urandweighted(count, chances) ==
    IF (\A j \in 1..count : chances[j] >= 0) /\ (\E j \in 1..count : chances[j] > 0)
    THEN { j - 1 : j \in { l \in 1..count : chances[l] > 0 } }
    ELSE 0..(count - 1)

UseFallback_Negative(sum) == sum < 0

\* line 204: if (weightSum <= 0.0)
UseFallback(sum) == sum <= 0
\* line 206: weights.assign(std::size(container), 1.0)
UniformWeights(size) == [j \in 1..size |-> 1]
\* line 199: weightExtractor(val)
Extract(fn, e) == fn[e.v]
\* lines 177-179: begin advanced by the index drawn
AdvanceFromBegin(index) == 1 + index

\* lines 193-197, loop initialisation
SW_Entry ==
    /\ pc = "sw_entry"
    /\ weights' = <<>> /\ weightSum' = 0 /\ swIt' = 1
    /\ pc' = "sw_loop"
    /\ UNCHANGED <<comVars, draws, weightExtractor, weightedIt, OthersSW>>

\* lines 197-202, one iteration
SW_LoopBody ==
    /\ pc = "sw_loop"
    /\ swIt # EndOf(input)
    /\ LET weight == Extract(weightExtractor, input[swIt]) IN
        /\ weights' = Append(weights, weight)
        /\ weightSum' = weightSum + weight
    /\ swIt' = swIt + 1
    /\ UNCHANGED <<comVars, pc, draws, weightExtractor, weightedIt, OthersSW>>

\* lines 204-207, after the loop
SW_Fallback ==
    /\ pc = "sw_loop"
    /\ swIt = EndOf(input)
    /\ weights' = IF UseFallback(weightSum) THEN UniformWeights(Len(input))
                  ELSE weights
    /\ pc' = "sw_call"
    /\ UNCHANGED <<comVars, draws, weightExtractor, weightSum, swIt, weightedIt,
                   OthersSW>>

\* line 209: the explicit-weights overload, lines 177-179
SW_Call ==
    /\ pc = "sw_call"
    /\ \E index \in urandweighted(Len(weights), weights) :
        /\ draws' = Append(draws, [max |-> Len(weights) - 1, val |-> index])
        /\ weightedIt' = AdvanceFromBegin(index)
    /\ pc' = "done"
    /\ UNCHANGED <<comVars, weightExtractor, weights, weightSum, swIt, OthersSW>>

\* ------------------------------------------ CheckedBufferOutputIterator
CheckPasses_Inclusive(b, e) == b <= e

\* lines 64-70: check() passes iff _buf < _end
CheckPasses(b, e) == b < e
\* line 54: the slot *_buf names, as a position of buffer
Slot(b) == b + 1
Remaining_OffByOne(b, e) == e - b - 1

\* line 58
Remaining(b, e) == e - b

CurCommon(kind) ==
    /\ op = "Cursor"
    /\ nOps < MaxOps
    /\ nOps' = nOps + 1
    /\ lastOp' = kind
    /\ UNCHANGED <<comVars, bufEnd, OthersCur>>

\* line 54 alone: *it (the reference is taken, nothing is stored)
Cur_Deref ==
    /\ CurCommon("deref")
    /\ IF CheckPasses(buf, bufEnd)
       THEN threw' = FALSE /\ handed' = handed \cup {buf}
       ELSE threw' = TRUE /\ UNCHANGED handed
    /\ UNCHANGED <<buf, buffer, attempts, writes, advances, lastRemaining>>

\* line 55 alone: ++it
Cur_PreInc ==
    /\ CurCommon("inc")
    /\ IF CheckPasses(buf, bufEnd)
       THEN threw' = FALSE /\ buf' = buf + 1 /\ advances' = advances + 1
       ELSE threw' = TRUE /\ UNCHANGED <<buf, advances>>
    /\ UNCHANGED <<buffer, handed, attempts, writes, lastRemaining>>

\* *it = v; ++it;  (line 54, the store, line 55); the exception of line 54
\* leaves the statement, so ++it is not reached.
Cur_WriteThenInc ==
    /\ CurCommon("write_then_inc")
    /\ attempts' = attempts + 1
    /\ \E v \in Vals :
        IF CheckPasses(buf, bufEnd)
        THEN /\ handed' = handed \cup {buf}
             /\ buffer' = [buffer EXCEPT ![Slot(buf)] = v]
             /\ IF CheckPasses(buf, bufEnd)
                THEN /\ buf' = buf + 1 /\ advances' = advances + 1
                     /\ threw' = FALSE /\ writes' = writes + 1
                ELSE /\ threw' = TRUE /\ UNCHANGED <<buf, advances, writes>>
        ELSE /\ threw' = TRUE
             /\ UNCHANGED <<buf, buffer, handed, writes, advances>>
    /\ UNCHANGED lastRemaining

\* *it++ = v;  (line 56: copy, operator++(); then line 54 on the copy, then
\* the store through the copy's _buf)
Cur_WritePostInc ==
    /\ CurCommon("write_post_inc")
    /\ attempts' = attempts + 1
    /\ \E v \in Vals :
        LET copyBuf == buf IN
        IF CheckPasses(buf, bufEnd)
        THEN /\ buf' = buf + 1 /\ advances' = advances + 1
             /\ IF CheckPasses(copyBuf, bufEnd)
                THEN /\ handed' = handed \cup {copyBuf}
                     /\ buffer' = [buffer EXCEPT ![Slot(copyBuf)] = v]
                     /\ threw' = FALSE /\ writes' = writes + 1
                ELSE /\ threw' = TRUE /\ UNCHANGED <<buffer, handed, writes>>
        ELSE /\ threw' = TRUE
             /\ UNCHANGED <<buf, buffer, handed, writes, advances>>
    /\ UNCHANGED lastRemaining

\* line 58: remaining()
Cur_Remaining ==
    /\ CurCommon("remaining")
    /\ lastRemaining' = Remaining(buf, bufEnd)
    /\ threw' = FALSE
    /\ UNCHANGED <<buf, buffer, handed, attempts, writes, advances>>

\* ------------------------------------------------------------------ Init
\* Multimaps: up to MaxLen nodes in ascending key order.
MultimapsOfLen(n) ==
    { [j \in 1..n |-> Entry(f[j][1], f[j][2], j)] :
        f \in { g \in [1..n -> Keys \X Vals] :
                  \A j \in 1..n, l \in 1..n : j < l => g[j][1] <= g[l][1] } }
Multimaps == UNION { MultimapsOfLen(n) : n \in 0..MaxLen }

InitRandomResize ==
    /\ op = "RandomResize" /\ pc = "rr_entry"
    /\ input \in Containers /\ container = input
    /\ pred = {} /\ draws = <<>>
    /\ requestedSize \in 0..(MaxLen + 1)
    /\ containerCopy = <<>>
    /\ keepIt = 0 /\ curIt = 0 /\ elementsToKeep = 0 /\ elementsToProcess = 0
    /\ EIIdle /\ NMIdle /\ MMIdle /\ SIIdle /\ SWIdle /\ CurIdle

InitRandomResizeIf ==
    /\ op = "RandomResizeIf" /\ pc = "rrp_filter"
    /\ input \in Containers /\ container = input
    /\ pred \in Predicates /\ draws = <<>>
    /\ requestedSize \in 0..(MaxLen + 1)
    /\ containerCopy = <<>>
    /\ keepIt = 0 /\ curIt = 0 /\ elementsToKeep = 0 /\ elementsToProcess = 0
    /\ EIIdle /\ NMIdle /\ MMIdle /\ SIIdle /\ SWIdle /\ CurIdle

\* Both EraseIf overloads are called with equal arguments, each on its own
\* container.
InitEraseIf ==
    /\ op = "EraseIf" /\ pc = "ei_entry"
    /\ input \in Containers /\ container = input
    /\ pred \in Predicates /\ draws = <<>>
    /\ EIIdle
    /\ containerNM = input /\ itNM = 0 /\ pcNM = "nm_entry"
    /\ RRIdle /\ MMIdle /\ SIIdle /\ SWIdle /\ CurIdle

InitMultimapErasePair ==
    /\ op = "MultimapErasePair" /\ pc = "mm_entry"
    /\ input \in Multimaps /\ multimap = input
    /\ key \in Keys /\ value \in Vals
    /\ itr = End /\ rangeSecond = End
    /\ container = <<>> /\ pred = {} /\ draws = <<>>
    /\ RRIdle /\ EIIdle /\ NMIdle /\ SIIdle /\ SWIdle /\ CurIdle

InitSelectIf ==
    /\ op = "SelectIf" /\ pc = "si_entry"
    /\ input \in Containers /\ container = input
    /\ pred \in Predicates /\ draws = <<>>
    /\ SIIdle
    /\ RRIdle /\ EIIdle /\ NMIdle /\ MMIdle /\ SWIdle /\ CurIdle

\* "Note: container cannot be empty" (line 188)
InitSelectWeighted ==
    /\ op = "SelectWeighted" /\ pc = "sw_entry"
    /\ input \in Containers \ { <<>> } /\ container = input
    /\ weightExtractor \in [Vals -> WeightVals]
    /\ weights = <<>> /\ weightSum = 0 /\ swIt = 0 /\ weightedIt = 0
    /\ pred = {} /\ draws = <<>>
    /\ RRIdle /\ EIIdle /\ NMIdle /\ MMIdle /\ SIIdle /\ CurIdle

\* CheckedBufferOutputIterator(buf, n): _buf = buf, _end = buf + n
InitCursor ==
    /\ op = "Cursor" /\ pc = "cursor"
    /\ \E n \in 0..MaxCap :
        /\ bufEnd = n
        /\ buffer = [j \in 1..n |-> 0]
    /\ buf = 0 /\ threw = FALSE /\ lastOp = "none" /\ handed = {}
    /\ nOps = 0 /\ attempts = 0 /\ writes = 0 /\ advances = 0 /\ lastRemaining = 0
    /\ input = <<>> /\ container = <<>> /\ pred = {} /\ draws = <<>>
    /\ RRIdle /\ EIIdle /\ NMIdle /\ MMIdle /\ SIIdle /\ SWIdle

Init ==
    \/ InitRandomResize
    \/ InitRandomResizeIf
    \/ InitEraseIf
    \/ InitMultimapErasePair
    \/ InitSelectIf
    \/ InitSelectWeighted
    \/ InitCursor

Next ==
    \/ RR_Entry
    \/ RR_LoopBody
    \/ RR_Erase
    \/ RRP_Filter
    \/ RRP_Assign
    \/ EI_Entry
    \/ EI_LoopBody
    \/ EI_Erase
    \/ NM_Entry
    \/ NM_LoopBody
    \/ NM_Exit
    \/ MM_Entry
    \/ MM_LoopBody
    \/ MM_Exit
    \/ SI_Entry
    \/ SI_ScanBody
    \/ SI_ScanExit
    \/ SI_ReturnEnd
    \/ SI_ReturnPick
    \/ SW_Entry
    \/ SW_LoopBody
    \/ SW_Fallback
    \/ SW_Call
    \/ Cur_Deref
    \/ Cur_PreInc
    \/ Cur_WriteThenInc
    \/ Cur_WritePostInc
    \/ Cur_Remaining

Spec == Init /\ [][Next]_vars

\* ------------------------------------------------------------ properties
Min(a, b) == IF a < b THEN a ELSE b
Positions(c) == { c[j].i : j \in 1..Len(c) }
\* c consists of elements of the argument, each at most once, in the order
\* they had in the argument.
OrderedSelectionOfInput(c) ==
    /\ \A j \in 1..Len(c) : c[j].i \in 1..Len(input) /\ c[j] = input[c[j].i]
    /\ \A j \in 1..Len(c), l \in 1..Len(c) : j < l => c[j].i < c[l].i
RRDone == op = "RandomResize" /\ pc = "done"
RRShrinks == Len(input) > requestedSize

\* C1: RandomResize(container, k) on a container of size n leaves exactly
\* min(n, k) elements, whatever the draws were (k = 0 included).
C1_ExactSize ==
    RRDone => Len(container) = Min(Len(input), requestedSize)

C1_Witness ==
    /\ RRDone /\ requestedSize > 0 /\ Len(input) > requestedSize + 1
    /\ Len(draws) = Len(input) /\ Len(container) = requestedSize

\* C2: with n > k the result of RandomResize is a subsequence of the
\* argument: every survivor is the element of one original position, no
\* position survives twice, and survivors keep their relative order.
C2_Subsequence ==
    (RRDone /\ RRShrinks) => OrderedSelectionOfInput(container)

C2_Witness ==
    /\ RRDone /\ RRShrinks /\ Len(container) = 2
    /\ container[1].i = 2 /\ container[2].i = 4

KSubsets(S, k) == { T \in SUBSET S : Cardinality(T) = k }
\* C3: with n > k every k-subset of positions is a possible surviving set,
\* and all have the same probability.  Every run makes one draw per element
\* from ranges of sizes n, n-1, ..., 1, so every sequence of draws has the
\* same probability, and the probability of a surviving set is the share of
\* the draw sequences that lead to it: that share is 1/C(n,k) for each.
\* The surviving set of a finished run is the one its draws determine.
C3_UniformSubsets ==
    /\ (op = "RandomResize" /\ pc = "rr_loop" /\ draws = <<>>) =>
        LET n == elementsToProcess
            k == elementsToKeep
            all == DrawSeqs(n)
            subsets == KSubsets(1..n, k)
        IN  \A T \in subsets :
                Cardinality({ d \in all : KeptPositions(1, k, n, d) = T })
                    * Cardinality(subsets) = Cardinality(all)
    /\ (RRDone /\ RRShrinks) =>
        LET n == Len(input) IN
        /\ Len(draws) = n
        /\ \A j \in 1..n : draws[j].max = n - j + 1 /\ draws[j].val \in 1..draws[j].max
        /\ Positions(container)
             = KeptPositions(1, requestedSize, n, [j \in 1..n |-> draws[j].val])

C3_Witness ==
    /\ RRDone /\ Len(input) = 4 /\ requestedSize = 2
    /\ Positions(container) = {1, 3}

\* C4: RandomResize(container, k) with size(container) <= k leaves the
\* container as it was and makes no draw.
C4_Identity ==
    (RRDone /\ ~RRShrinks) => container = input /\ draws = <<>>

C4_Witness ==
    RRDone /\ Len(input) = requestedSize /\ Len(input) > 1 /\ container = input

\* C8: RandomResize(container, predicate, k) leaves only elements that
\* satisfy the predicate, in their original order: all of them when k = 0,
\* and min(m, k) of the m matching elements when k # 0.
C8_FilteredResize ==
    (op = "RandomResizeIf" /\ pc = "done") =>
        LET matching == { j \in 1..Len(input) : input[j].v \in pred } IN
        /\ OrderedSelectionOfInput(container)
        /\ Positions(container) \subseteq matching
        /\ requestedSize = 0 => Positions(container) = matching
        /\ requestedSize # 0 =>
               Len(container) = Min(Cardinality(matching), requestedSize)

C8_Witness ==
    /\ op = "RandomResizeIf" /\ pc = "done"
    /\ requestedSize = 1 /\ Len(input) = 4
    /\ Cardinality({ j \in 1..Len(input) : input[j].v \in pred }) = 2
    /\ Len(container) = 1 /\ container[1].i = 4

C8_WitnessUncapped ==
    /\ op = "RandomResizeIf" /\ pc = "done" /\ requestedSize = 0
    /\ Len(container) = 2 /\ Len(input) = 3

\* C5: the move-assignable EraseIf leaves exactly the elements the predicate
\* rejects, each once, in their original order.
C5_StableErase ==
    (op = "EraseIf" /\ pc = "done") =>
        /\ OrderedSelectionOfInput(container)
        /\ Positions(container) = { j \in 1..Len(input) : input[j].v \notin pred }

\* the shape of [1,2,3,4,5,6] with "is even": every second element goes
C5_Witness ==
    /\ op = "EraseIf" /\ pc = "done" /\ pred = {2}
    /\ Len(input) = 4 /\ \A j \in 1..4 : input[j].v = IF j % 2 = 0 THEN 2 ELSE 1
    /\ container = <<input[1], input[3]>>

\* C6: the two EraseIf overloads, called with equal arguments, end with
\* equal containers.
C6_SameResult ==
    (op = "EraseIf" /\ pc = "done" /\ pcNM = "done") => container = containerNM

C6_Witness ==
    /\ op = "EraseIf" /\ pc = "done" /\ pcNM = "done"
    /\ Len(input) = 4 /\ Len(containerNM) = 2
    /\ containerNM[1].i = 2 /\ containerNM[2].i = 4

\* C7: a write is a dereference-assign plus advance.  No offset at or past
\* the end is handed out for writing; a write throws only with the cursor at
\* the end; and when only writes are applied to a cursor of capacity n, the
\* first n succeed and every later one (the (n+1)-th first) throws.
C7_BoundedWrites ==
    op = "Cursor" =>
        /\ handed \subseteq 0..(bufEnd - 1)
        /\ Len(buffer) = bufEnd
        /\ (lastOp \in {"write_then_inc", "write_post_inc"} /\ threw) => buf = bufEnd
        /\ attempts = nOps =>
            /\ writes = Min(attempts, bufEnd)
            /\ threw <=> attempts > bufEnd
            /\ \A j \in 1..bufEnd : (buffer[j] # 0) <=> j <= writes

C7_Witness ==
    /\ op = "Cursor" /\ bufEnd = 3 /\ attempts = 4 /\ nOps = 4
    /\ writes = 3 /\ threw /\ lastOp = "write_post_inc"

\* C9: MultimapErasePair removes every entry equal to (key, value) and
\* nothing else: the entries left are exactly the other entries, each once,
\* in their order.
C9_ErasePair ==
    (op = "MultimapErasePair" /\ pc = "done") =>
        /\ OrderedSelectionOfInput(multimap)
        /\ Positions(multimap)
             = { j \in 1..Len(input) : ~(input[j].k = key /\ input[j].v = value) }

\* {(k,v),(k,v),(k,w)} becomes {(k,w)}
C9_Witness ==
    /\ op = "MultimapErasePair" /\ pc = "done"
    /\ Len(input) = 3 /\ \A j \in 1..3 : input[j].k = key
    /\ input[1].v = value /\ input[2].v = value /\ input[3].v # value
    /\ multimap = <<input[3]>>

C10_WitnessSingle ==
    /\ op = "SelectIf" /\ pc = "done" /\ Len(input) = 3
    /\ { j \in 1..Len(input) : input[j].v \in pred } = {2}
    /\ randomIt = 2

RECURSIVE SumOf(_)
SumOf(w) == IF w = <<>> THEN 0 ELSE Head(w) + SumOf(Tail(w))
Extracted == [j \in 1..Len(input) |-> weightExtractor[input[j].v]]

\* C11: the weight-extractor form, on a non-empty container of size n, hands
\* the explicit-weights form n weights equal to 1 when the extracted weights
\* sum to <= 0 (every position is then a possible result, with equal
\* weights, as for the uniform selector), and the extracted weights in order
\* otherwise; either way n weights with a strictly positive sum.
C11_WeightsHandedOver ==
    (op = "SelectWeighted" /\ pc = "sw_call") =>
        /\ Len(weights) = Len(input)
        /\ SumOf(weights) > 0
        /\ SumOf(Extracted) <= 0 =>
            /\ \A j \in 1..Len(input) : weights[j] = 1
            /\ \A p \in 1..Len(input) : ENABLED (SW_Call /\ weightedIt' = p)
        /\ SumOf(Extracted) > 0 => weights = Extracted

\* all extracted weights zero: three weights 1 are handed over
C11_Witness ==
    /\ op = "SelectWeighted" /\ pc = "sw_call" /\ Len(input) = 3
    /\ \A j \in 1..3 : Extracted[j] = 0
    /\ weights = <<1, 1, 1>>

C11_WitnessUnchanged ==
    /\ op = "SelectWeighted" /\ pc = "done" /\ Len(input) = 3
    /\ weights = <<2, 0, 2>> /\ weightedIt = 3

CursorWriteOps == {"deref", "inc", "write_then_inc", "write_post_inc"}
\* C12: for a cursor of capacity n, remaining() is n minus the number of
\* advances that returned and lies in 0..n; an operation that throws leaves
\* the position, the buffer and remaining() as they were; and with
\* remaining() at 0 every dereference, advance or write throws.
C12_Remaining ==
    /\ [](op = "Cursor" =>
            /\ buf = advances
            /\ Remaining(buf, bufEnd) \in 0..bufEnd
            /\ lastOp = "remaining" =>
                 lastRemaining = bufEnd - advances /\ lastRemaining \in 0..bufEnd)
    /\ [][op = "Cursor" =>
            /\ threw' =>
                 /\ buf' = buf /\ buffer' = buffer
                 /\ Remaining(buf', bufEnd') = Remaining(buf, bufEnd)
            /\ (Remaining(buf, bufEnd) = 0 /\ lastOp' \in CursorWriteOps) =>
                 threw' /\ buf' = buf]_vars

C12_Witness ==
    /\ op = "Cursor" /\ bufEnd = 2 /\ advances = 2 /\ attempts = 2 /\ writes = 1
    /\ nOps = 4 /\ lastOp = "remaining" /\ lastRemaining = 0

\* C13: in RandomResize with n > k the loop runs n times, making one draw
\* per element from [1, elementsToProcess] for elementsToProcess = n, ..., 1
\* (also once elementsToKeep is 0); throughout 0 <= elementsToKeep <=
\* elementsToProcess and keepIt is not ahead of curIt, so the elements not
\* yet examined are still the argument's; the loop can always go on or
\* leave, and it leaves with elementsToKeep = 0 after n draws.
C13_LoopInvariant ==
    LET n == Len(input) IN
    /\ (op = "RandomResize" /\ pc = "rr_loop") =>
        /\ 0 <= elementsToKeep /\ elementsToKeep <= elementsToProcess
        /\ keepIt <= curIt
        /\ curIt = n - elementsToProcess + 1
        /\ keepIt = requestedSize - elementsToKeep + 1
        /\ Len(draws) = n - elementsToProcess
        /\ \A j \in 1..Len(draws) :
              draws[j].max = n - j + 1 /\ draws[j].val \in 1..draws[j].max
        /\ \A j \in curIt..n : container[j] = input[j]
        /\ ENABLED (RR_LoopBody \/ RR_Erase)
        /\ ENABLED RR_Erase => (elementsToKeep = 0 /\ Len(draws) = n)
    /\ (RRDone /\ RRShrinks) =>
        /\ Len(draws) = n
        /\ elementsToKeep = 0 /\ elementsToProcess = 0
        /\ curIt = n + 1

\* the quota is filled by the first two elements and two more draws follow
C13_Witness ==
    /\ RRDone /\ Len(input) = 4 /\ requestedSize = 2
    /\ Positions(container) = {1, 2}
    /\ Len(draws) = 4 /\ draws[3].max = 2 /\ draws[4].max = 1

====
